---- MODULE Spec2Model ----
(***************************************************************************)
(* FloatOrd (src/lib.rs): a wrapper for IEEE-754 floats that implements    *)
(* total equality, ordering and hashing through the key computed by        *)
(* FloatOrd::convert.                                                      *)
(*                                                                         *)
(* A float is represented by its bit pattern, an unsigned integer of the   *)
(* width of its format: 1 sign bit, an exponent field and a mantissa       *)
(* field, with the IEEE-754 encodings of zero, subnormals, infinity and    *)
(* NaN.  The two instantiations float_ord_impl!(f32, u32, 32) and          *)
(* float_ord_impl!(f64, u64, 64) are kept as two formats of different      *)
(* widths; the field widths are scaled down (ExpBits, ManBits) so that     *)
(* every bit pattern of a format is enumerated.                            *)
(***************************************************************************)
EXTENDS Integers, Sequences, FiniteSets, TLC

VARIABLES fmt, a, b, pc, res, v, vIn

vars == <<fmt, a, b, pc, res, v, vIn>>

\* Exponent and mantissa field widths of the narrow format, and the longest
\* slice handed to sort.
ExpBits == 2
ManBits == 2
MaxLen == 3

-----------------------------------------------------------------------------
\* The float formats: float_ord_impl!($f, $i, $n)

Formats == {"f32", "f64"}

ExpW(f) == IF f = "f32" THEN ExpBits ELSE ExpBits + 1
ManW(f) == ManBits
Width(f) == 1 + ExpW(f) + ManW(f)

\* All values of the unsigned integer type of n bits.
Words(n) == 0 .. (2^n - 1)
Patterns(f) == Words(Width(f))

-----------------------------------------------------------------------------
\* Fixed-width unsigned integer operators used by convert.  The only mask
\* convert uses is the single bit 1 << ($n - 1), so & and | are given for a
\* mask m that is a power of two.

\* x & m
BitAnd(x, m) == ((x \div m) % 2) * m

\* x | m
BitOr(x, m) == x + (m - BitAnd(x, m))

\* !x on n bits
BitNot(x, n) == (2^n - 1) - x

\* x << k on n bits
Shl(x, k, n) == (x * (2^k)) % (2^n)

\* let bit = 1 << ($n - 1);
SignBit(n) == Shl(1, n - 1, n)

-----------------------------------------------------------------------------
\* Mutants of the transform.

\* complement forgotten: the sign bit is merely cleared for negative values
convert_NoComplement(u, n) ==
    IF BitAnd(u, SignBit(n)) = 0
    THEN BitOr(u, SignBit(n))
    ELSE u - SignBit(n)

\* the sign bit is forced in both branches
convert_AlwaysOr(u, n) == BitOr(u, SignBit(n))

\* fn convert(self) -> $i, on the bits u = transmute(self.0)
convert(u, n) ==
    IF BitAnd(u, SignBit(n)) = 0
    THEN BitOr(u, SignBit(n))
    ELSE BitNot(u, n)

key(x, f) == convert(x, Width(f))

-----------------------------------------------------------------------------
\* IEEE-754 decoding of a bit pattern u of format f.  This is the meaning the
\* hardware gives the bits, on which the native comparisons of the float
\* type (<, <=, ==, is_nan, is_sign_negative) rest.

SignOf(u, f) == u \div (2^(Width(f) - 1))
ExpOf(u, f) == (u \div (2^ManW(f))) % (2^ExpW(f))
ManOf(u, f) == u % (2^ManW(f))
ExpMax(f) == 2^ExpW(f) - 1
Bias(f) == 2^(ExpW(f) - 1) - 1

IsNaN(u, f) == ExpOf(u, f) = ExpMax(f) /\ ManOf(u, f) # 0
IsInf(u, f) == ExpOf(u, f) = ExpMax(f) /\ ManOf(u, f) = 0
IsFinite(u, f) == ExpOf(u, f) # ExpMax(f)
IsZero(u, f) == ExpOf(u, f) = 0 /\ ManOf(u, f) = 0
IsSignNegative(u, f) == SignOf(u, f) = 1

\* The magnitude of a non-NaN value in units of the smallest subnormal,
\* 2^(1 - Bias - ManW): subnormals are man, normals are (1.man) * 2^(exp-1);
\* an infinity lies above every finite magnitude.
Magnitude(u, f) ==
    IF ExpOf(u, f) = 0 THEN ManOf(u, f)
    ELSE IF IsInf(u, f) THEN (2^(ManW(f) + 1)) * (2^(ExpMax(f) - 2))
    ELSE (2^ManW(f) + ManOf(u, f)) * (2^(ExpOf(u, f) - 1))

\* The extended-real value of a non-NaN pattern (both zeros are 0).
Value(u, f) == IF IsSignNegative(u, f) THEN 0 - Magnitude(u, f) ELSE Magnitude(u, f)

\* Native comparisons of the float type: false whenever an operand is NaN.
NativeLt(x, y, f) == ~IsNaN(x, f) /\ ~IsNaN(y, f) /\ Value(x, f) < Value(y, f)
NativeLe(x, y, f) == ~IsNaN(x, f) /\ ~IsNaN(y, f) /\ Value(x, f) <= Value(y, f)
NativeEq(x, y, f) == ~IsNaN(x, f) /\ ~IsNaN(y, f) /\ Value(x, f) = Value(y, f)

\* Encoding of the value (-1)^s * (1 + num/den) * 2^e, den a power of two
\* no larger than 2^ManW.
Enc(s, e, num, den, f) ==
    s * (2^(Width(f) - 1)) + (e + Bias(f)) * (2^ManW(f)) + num * ((2^ManW(f)) \div den)

PosZero(f) == 0
NegZero(f) == 2^(Width(f) - 1)
PosInf(f) == ExpMax(f) * (2^ManW(f))
NegInf(f) == NegZero(f) + PosInf(f)
\* core::$f::NAN: the quiet NaN, most significant mantissa bit set
NAN(f) == PosInf(f) + 2^(ManW(f) - 1)
\* -core::$f::NAN: unary minus flips the sign bit
NegNAN(f) == NegZero(f) + NAN(f)

-----------------------------------------------------------------------------
\* core::cmp::Ordering and the comparisons of the unsigned key type $i.

Ordering == {"Less", "Equal", "Greater"}

UCmp(x, y) == IF x < y THEN "Less" ELSE IF x = y THEN "Equal" ELSE "Greater"
Some(o) == <<"Some", o>>
None == <<"None">>
UPartialCmp(x, y) == Some(UCmp(x, y))

-----------------------------------------------------------------------------
\* The trait implementations of FloatOrd<$f>.

\* a derived PartialEq would compare the wrapped floats natively
eq_Native(x, y, f) == NativeEq(x, y, f)

\* impl PartialEq: self.convert() == other.convert()
eq(x, y, f) == key(x, f) = key(y, f)

\* impl PartialOrd: self.convert().partial_cmp(&other.convert())
partial_cmp(x, y, f) == UPartialCmp(key(x, f), key(y, f))

\* impl Ord: self.convert().cmp(&other.convert())
cmp(x, y, f) == UCmp(key(x, f), key(y, f))

\* The comparison operators PartialOrd provides on top of partial_cmp.
lt(x, y, f) == partial_cmp(x, y, f) = Some("Less")
le(x, y, f) == partial_cmp(x, y, f) \in {Some("Less"), Some("Equal")}

\* hashing the magnitude alone: the sign bit forced for every value
hash_SignForced(x, f, state) ==
    Append(state, [bits |-> Width(f), value |-> BitOr(x, SignBit(Width(f)))])

\* impl Hash: self.convert().hash(state) writes the key, an integer of the
\* format's width, to the hasher; a hasher is the sequence of its writes.
hash(x, f, state) == Append(state, [bits |-> Width(f), value |-> key(x, f)])

\* tests::hash: a fresh hasher fed one value
HashOf(x, f) == hash(x, f, <<>>)

-----------------------------------------------------------------------------
\* sort: the slice is reinterpreted as a slice of FloatOrd (the bits stay) and
\* handed to pdqsort::sort, an unstable in-place comparison sort driven by
\* Ord.  Any arrangement of the elements in which each one is followed only
\* by elements not Less than it is a possible outcome.

RemoveAt(s, i) == SubSeq(s, 1, i - 1) \o SubSeq(s, i + 1, Len(s))

Least(s, f) == {i \in 1 .. Len(s) : \A j \in 1 .. Len(s) : cmp(s[j], s[i], f) # "Less"}

RECURSIVE PdqSort(_, _)
PdqSort(s, f) ==
    IF Len(s) = 0 THEN {<<>>}
    ELSE UNION {{<<s[i]>> \o t : t \in PdqSort(RemoveAt(s, i), f)} : i \in Least(s, f)}

sort(s, f) == PdqSort(s, f)

-----------------------------------------------------------------------------
\* Inputs.

NoResult == [op |-> "none"]

\* The values slices are built from: both NaN signs (two payloads of the
\* positive one), both infinities, both zeros, -1.0, 1.0 and 1.5.
Samples(f) ==
    {NegNAN(f), NegInf(f), Enc(1, 0, 0, 1, f), NegZero(f), PosZero(f),
     Enc(0, 0, 0, 1, f), Enc(0, 0, 1, 2, f), PosInf(f), NAN(f), NAN(f) + 1}

SeqsUpTo(S, n) == UNION {[1 .. k -> S] : k \in 0 .. n}

\* tests::test_sort_nan: [-1.0, 5.0, 0.0, -0.0, nan, 1.5, nan, 3.7] as f64;
\* 3.7 is 3.5 here, the nearest value two mantissa bits represent.
ExampleIn ==
    <<Enc(1, 0, 0, 1, "f64"), Enc(0, 2, 1, 4, "f64"), PosZero("f64"), NegZero("f64"),
      NAN("f64"), Enc(0, 0, 1, 2, "f64"), NAN("f64"), Enc(0, 1, 3, 4, "f64")>>

ExampleOut ==
    <<Enc(1, 0, 0, 1, "f64"), NegZero("f64"), PosZero("f64"), Enc(0, 0, 1, 2, "f64"),
      Enc(0, 1, 3, 4, "f64"), Enc(0, 2, 1, 4, "f64"), NAN("f64"), NAN("f64")>>

Slices(f) == SeqsUpTo(Samples(f), MaxLen) \cup (IF f = "f64" THEN {ExampleIn} ELSE {})

-----------------------------------------------------------------------------
\* Comparison, equality and hashing of two wrapped values FloatOrd(a), FloatOrd(b).

Init ==
    /\ fmt \in Formats
    /\ a \in Patterns(fmt)
    /\ b \in Patterns(fmt)
    /\ pc = "call"
    /\ res = NoResult
    /\ v = <<>>
    /\ vIn = <<>>

CallEq ==
    /\ pc = "call"
    /\ res' = [op |-> "eq", out |-> eq(a, b, fmt)]
    /\ pc' = "done"
    /\ UNCHANGED <<fmt, a, b, v, vIn>>

CallPartialCmp ==
    /\ pc = "call"
    /\ res' = [op |-> "partial_cmp", out |-> partial_cmp(a, b, fmt)]
    /\ pc' = "done"
    /\ UNCHANGED <<fmt, a, b, v, vIn>>

CallCmp ==
    /\ pc = "call"
    /\ res' = [op |-> "cmp", out |-> cmp(a, b, fmt)]
    /\ pc' = "done"
    /\ UNCHANGED <<fmt, a, b, v, vIn>>

CallLe ==
    /\ pc = "call"
    /\ res' = [op |-> "le", out |-> le(a, b, fmt)]
    /\ pc' = "done"
    /\ UNCHANGED <<fmt, a, b, v, vIn>>

CallHash ==
    /\ pc = "call"
    /\ res' = [op |-> "hash", out |-> <<HashOf(a, fmt), HashOf(b, fmt)>>]
    /\ pc' = "done"
    /\ UNCHANGED <<fmt, a, b, v, vIn>>

Next == CallEq \/ CallPartialCmp \/ CallCmp \/ CallLe \/ CallHash

Spec == Init /\ [][Next]_vars

-----------------------------------------------------------------------------
\* Sorting a slice of floats.

InitSort ==
    /\ fmt \in Formats
    /\ v \in Slices(fmt)
    /\ vIn = v
    /\ a = 0
    /\ b = 0
    /\ pc = "call"
    /\ res = NoResult

CallSort ==
    /\ pc = "call"
    /\ v' \in sort(v, fmt)
    /\ pc' = "done"
    /\ res' = [op |-> "sort"]
    /\ UNCHANGED <<fmt, a, b, vIn>>

NextSort == CallSort

SpecSort == InitSort /\ [][NextSort]_vars

-----------------------------------------------------------------------------
\* The target order of the crate documentation:
\*    NaN | -Infinity | x < 0 | -0 | +0 | x > 0 | +Infinity | NaN
\* with the leading NaN the negative ones and the trailing NaN the positive.

IsNegNaN(u, f) == IsNaN(u, f) /\ IsSignNegative(u, f)
IsPosNaN(u, f) == IsNaN(u, f) /\ ~IsSignNegative(u, f)

Class(u, f) ==
    IF IsNegNaN(u, f) THEN 0
    ELSE IF u = NegInf(f) THEN 1
    ELSE IF u = NegZero(f) THEN 3
    ELSE IF IsSignNegative(u, f) THEN 2
    ELSE IF u = PosZero(f) THEN 4
    ELSE IF IsFinite(u, f) THEN 5
    ELSE IF u = PosInf(f) THEN 6
    ELSE 7

Numeric(u, f) == Class(u, f) \in {2, 5}

Precedes(x, y, f) ==
    \/ Class(x, f) < Class(y, f)
    \/ Class(x, f) = Class(y, f) /\ Numeric(x, f) /\ Value(x, f) < Value(y, f)

PrecedesOrEquals(x, y, f) ==
    \/ Precedes(x, y, f)
    \/ Class(x, f) = Class(y, f) /\ (Numeric(x, f) => Value(x, f) = Value(y, f))

SameSignNaNs(x, y, f) ==
    \/ IsNegNaN(x, f) /\ IsNegNaN(y, f)
    \/ IsPosNaN(x, f) /\ IsPosNaN(y, f)

Done(op) == pc = "done" /\ res.op = op

AllOnes(f) == 2^Width(f) - 1

-----------------------------------------------------------------------------
\* C1: for every pair a, b that are not both NaNs of one sign, key(a) <= key(b)
\* exactly when a precedes or equals b in the target order (numeric order
\* inside x<0 and x>0), and so cmp gives Less or Equal exactly then; a < b
\* natively implies cmp(FloatOrd(a), FloatOrd(b)) = Less.
C1_KeyOrderIsTargetOrder ==
    Done("cmp") /\ ~SameSignNaNs(a, b, fmt) =>
        /\ (key(a, fmt) <= key(b, fmt)) <=> PrecedesOrEquals(a, b, fmt)
        /\ (res.out \in {"Less", "Equal"}) <=> PrecedesOrEquals(a, b, fmt)
        /\ NativeLt(a, b, fmt) => res.out = "Less"

C1_Witness ==
    /\ Done("cmp")
    /\ Class(a, fmt) = 2 /\ Class(b, fmt) = 2
    /\ ExpOf(a, fmt) = 0 /\ ExpOf(b, fmt) > 0
    /\ NativeLt(b, a, fmt)
    /\ res.out = "Greater"

\* C2: every negative NaN is Less than every non-NaN value, every non-NaN
\* value is Less than every positive NaN, every negative NaN is Less than
\* every positive NaN; key 0 is the key of a negative NaN and the all-ones
\* key is the key of a positive NaN, and no key lies outside 0 .. all-ones.
C2_NaNPlacement ==
    Done("cmp") =>
        /\ IsNegNaN(a, fmt) /\ ~IsNaN(b, fmt) => res.out = "Less"
        /\ ~IsNaN(a, fmt) /\ IsPosNaN(b, fmt) => res.out = "Less"
        /\ IsNegNaN(a, fmt) /\ IsPosNaN(b, fmt) => res.out = "Less"
        /\ key(a, fmt) \in Words(Width(fmt))
        /\ key(a, fmt) = 0 => IsNegNaN(a, fmt)
        /\ key(a, fmt) = AllOnes(fmt) => IsPosNaN(a, fmt)
        /\ IsNegNaN(AllOnes(fmt), fmt) /\ key(AllOnes(fmt), fmt) = 0
        /\ IsPosNaN(NegZero(fmt) - 1, fmt) /\ key(NegZero(fmt) - 1, fmt) = AllOnes(fmt)

C2_Witness ==
    /\ Done("cmp")
    /\ IsNegNaN(a, fmt) /\ key(a, fmt) # 0
    /\ b = NegInf(fmt)
    /\ res.out = "Less"

\* C3 as stated: NaNs of one sign are mutually equal under eq and cmp,
\* whatever their payload; positive NaNs are greater than +Infinity and
\* negative NaNs less than -Infinity.
C3_Original ==
    /\ Done("eq") /\ SameSignNaNs(a, b, fmt) => res.out = TRUE
    /\ Done("cmp") /\ SameSignNaNs(a, b, fmt) => res.out = "Equal"
    /\ Done("cmp") /\ IsPosNaN(a, fmt) /\ b = PosInf(fmt) => res.out = "Greater"
    /\ Done("cmp") /\ IsNegNaN(a, fmt) /\ b = NegInf(fmt) => res.out = "Less"

\* C3 (amended): NaNs of one sign are equal under eq, and Equal under cmp,
\* exactly when their payloads are identical; among NaNs of one sign a
\* larger payload is further from zero (Greater for positive NaNs, Less
\* for negative ones); positive NaNs are greater than +Infinity and negative
\* NaNs less than -Infinity.
C3_NaNsEqualOnlyWithSamePayload ==
    /\ Done("eq") /\ SameSignNaNs(a, b, fmt) => (res.out <=> ManOf(a, fmt) = ManOf(b, fmt))
    /\ Done("cmp") /\ SameSignNaNs(a, b, fmt) =>
          /\ res.out = "Equal" <=> ManOf(a, fmt) = ManOf(b, fmt)
          /\ IsPosNaN(a, fmt) /\ ManOf(a, fmt) > ManOf(b, fmt) => res.out = "Greater"
          /\ IsNegNaN(a, fmt) /\ ManOf(a, fmt) > ManOf(b, fmt) => res.out = "Less"
    /\ Done("cmp") /\ IsPosNaN(a, fmt) /\ b = PosInf(fmt) => res.out = "Greater"
    /\ Done("cmp") /\ IsNegNaN(a, fmt) /\ b = NegInf(fmt) => res.out = "Less"

C3_Witness ==
    /\ Done("eq")
    /\ IsPosNaN(a, fmt) /\ IsPosNaN(b, fmt)
    /\ ManOf(a, fmt) # ManOf(b, fmt)
    /\ res.out = FALSE

\* C4 as stated: for any two finite values a and b, both zeros included,
\* a <= b natively exactly when FloatOrd(a) <= FloatOrd(b).
C4_Original ==
    Done("le") /\ IsFinite(a, fmt) /\ IsFinite(b, fmt) =>
        (NativeLe(a, b, fmt) <=> res.out)

\* C4 (amended): for any two finite values a and b other than a = +0.0 with
\* b = -0.0, a <= b natively exactly when FloatOrd(a) <= FloatOrd(b); for
\* a = +0.0 and b = -0.0, a <= b natively but FloatOrd(a) <= FloatOrd(b) is
\* false.
C4_NativeLeExceptZeroPair ==
    Done("le") /\ IsFinite(a, fmt) /\ IsFinite(b, fmt) =>
        IF a = PosZero(fmt) /\ b = NegZero(fmt)
        THEN NativeLe(a, b, fmt) /\ res.out = FALSE
        ELSE NativeLe(a, b, fmt) <=> res.out

C4_Witness ==
    /\ Done("le")
    /\ IsFinite(a, fmt) /\ IsFinite(b, fmt)
    /\ IsSignNegative(a, fmt) /\ IsSignNegative(b, fmt)
    /\ ~IsZero(a, fmt) /\ a # b
    /\ NativeLe(a, b, fmt)
    /\ res.out = TRUE

\* C5: in both formats FloatOrd(-0.0) is Less than FloatOrd(+0.0), the two
\* are unequal under eq, key(+0.0) = signBit = key(-0.0) + 1, and no value's
\* key lies strictly between the two.
C5_SignedZerosAdjacent ==
    /\ Done("cmp") /\ a = NegZero(fmt) /\ b = PosZero(fmt) => res.out = "Less"
    /\ Done("eq") /\ a = NegZero(fmt) /\ b = PosZero(fmt) => res.out = FALSE
    /\ Done("cmp") =>
          /\ key(PosZero(fmt), fmt) = SignBit(Width(fmt))
          /\ key(PosZero(fmt), fmt) = key(NegZero(fmt), fmt) + 1
          /\ ~(key(NegZero(fmt), fmt) < key(a, fmt) /\ key(a, fmt) < key(PosZero(fmt), fmt))

C5_Witness ==
    /\ Done("cmp")
    /\ fmt = "f64"
    /\ a = NegZero(fmt) /\ b = PosZero(fmt)
    /\ res.out = "Less"

\* C6: cmp yields exactly one of Less, Equal, Greater; partial_cmp is never
\* None and equals Some(cmp); eq holds exactly when cmp is Equal; cmp(a, b)
\* is Less exactly when cmp(b, a) is Greater; and cmp is transitive.
C6_TotalOrder ==
    /\ Done("cmp") =>
          /\ res.out \in Ordering
          /\ res.out = cmp(a, b, fmt)
          /\ res.out = "Less" <=> cmp(b, a, fmt) = "Greater"
          /\ res.out = "Equal" <=> cmp(b, a, fmt) = "Equal"
          /\ res.out = "Equal" <=> eq(a, b, fmt)
          /\ res.out # "Greater" =>
                LET ka == key(a, fmt)
                    kb == key(b, fmt)
                IN  \A c \in Patterns(fmt) :
                        LET kc == key(c, fmt)
                            bc == UCmp(kb, kc)
                            ac == UCmp(ka, kc)
                        IN  /\ bc # "Greater" => ac # "Greater"
                            /\ bc = "Less" => ac = "Less"
                            /\ res.out = "Less" /\ bc = "Equal" => ac = "Less"
    /\ Done("partial_cmp") =>
          /\ res.out # None
          /\ res.out = Some(cmp(a, b, fmt))
    /\ Done("eq") => (res.out <=> cmp(a, b, fmt) = "Equal")

C6_Witness ==
    /\ Done("partial_cmp")
    /\ IsNaN(a, fmt) /\ IsNaN(b, fmt)
    /\ res.out = Some("Greater")

\* C7: hash feeds exactly key(x) to the hasher, so eq(a, b) implies equal
\* hashes; what is fed differs between +0.0 and -0.0 and between a positive
\* NaN and the negative NaN of the same payload, in both formats.
C7_HashFeedsKey ==
    Done("hash") =>
        /\ res.out[1] = <<[bits |-> Width(fmt), value |-> key(a, fmt)]>>
        /\ res.out[2] = <<[bits |-> Width(fmt), value |-> key(b, fmt)]>>
        /\ eq(a, b, fmt) => res.out[1] = res.out[2]
        /\ a = PosZero(fmt) /\ b = NegZero(fmt) => res.out[1] # res.out[2]
        /\ IsPosNaN(a, fmt) /\ b = a + NegZero(fmt) => res.out[1] # res.out[2]

C7_Witness ==
    /\ Done("hash")
    /\ IsPosNaN(a, fmt) /\ b = a + NegZero(fmt)
    /\ res.out[1] # res.out[2]

\* The pattern whose key is k, were the transform a bijection.
unconvert(k, n) == IF k >= SignBit(n) THEN k - SignBit(n) ELSE (2^n - 1) - k

\* C8: key(a) = key(b), and hence eq, exactly when a and b are the same bit
\* pattern; sign-clear patterns have keys >= signBit and sign-set patterns
\* keys < signBit, and every integer of the width is the key of a pattern of
\* the matching sign.
C8_KeyInjective ==
    Done("eq") =>
        /\ res.out <=> a = b
        /\ key(a, fmt) = key(b, fmt) <=> a = b
        /\ key(a, fmt) \in Words(Width(fmt))
        /\ ~IsSignNegative(a, fmt) <=> key(a, fmt) >= SignBit(Width(fmt))
        /\ LET u == unconvert(a, Width(fmt))
           IN  /\ u \in Patterns(fmt)
               /\ key(u, fmt) = a
               /\ ~IsSignNegative(u, fmt) <=> a >= SignBit(Width(fmt))

C8_Witness ==
    /\ Done("eq")
    /\ a # b
    /\ ManOf(a, fmt) = ManOf(b, fmt) /\ ExpOf(a, fmt) = ExpOf(b, fmt)
    /\ res.out = FALSE

-----------------------------------------------------------------------------
\* Claims about sort.

Count(s, x) == Cardinality({i \in 1 .. Len(s) : s[i] = x})
IsPermutation(s, t) ==
    /\ Len(s) = Len(t)
    /\ \A i \in 1 .. Len(s) : Count(s, s[i]) = Count(t, s[i])

IsSorted(s, f) == \A i \in 1 .. Len(s) - 1 : cmp(s[i], s[i + 1], f) # "Greater"

\* C9: after sort the slice is a permutation of the input bit patterns and
\* no adjacent pair compares Greater; an empty or single-element slice is
\* unchanged, and an already sorted slice is unchanged.
C9_SortOrdersSlice ==
    pc = "done" =>
        /\ IsPermutation(v, vIn)
        /\ IsSorted(v, fmt)
        /\ Len(vIn) <= 1 => v = vIn
        /\ IsSorted(vIn, fmt) => v = vIn

C9_Witness ==
    /\ pc = "done"
    /\ Len(vIn) >= 2
    /\ \E i \in 1 .. Len(vIn) : IsNegNaN(vIn[i], fmt)
    /\ \E i \in 1 .. Len(vIn) : IsPosNaN(vIn[i], fmt)
    /\ v # vIn

\* C10: when every NaN of the input is positive, the output is the non-NaN
\* values, non-decreasing under native <= with every -0.0 before every +0.0,
\* followed by all the NaNs; [-1.0, 5.0, 0.0, -0.0, NaN, 1.5, NaN, 3.7]
\* sorts to [-1.0, -0.0, 0.0, 1.5, 3.7, 5.0, NaN, NaN].
C10_NaNsTrail ==
    pc = "done" /\ (\A i \in 1 .. Len(vIn) : ~IsNegNaN(vIn[i], fmt)) =>
        /\ IsPermutation(v, vIn)
        /\ \A i, j \in 1 .. Len(v) :
              i < j =>
                 /\ IsNaN(v[i], fmt) => IsNaN(v[j], fmt)
                 /\ ~IsNaN(v[j], fmt) => NativeLe(v[i], v[j], fmt)
                 /\ ~(v[i] = PosZero(fmt) /\ v[j] = NegZero(fmt))
        /\ fmt = "f64" /\ vIn = ExampleIn => v = ExampleOut

C10_Witness ==
    /\ pc = "done"
    /\ fmt = "f64"
    /\ vIn = ExampleIn
    /\ v = ExampleOut

====
